---- MODULE Spec2Model ----
(***************************************************************************)
(* Request shaping of SpeechToTextV1 (watson_developer_cloud/              *)
(* speech_to_text_v1.py).  Each public method is one action: it validates  *)
(* its arguments, builds the keyword arguments of self.request and hands   *)
(* them to the transport, which is observed as a spy (the descriptor of    *)
(* the last invocation and the number of invocations).                     *)
(***************************************************************************)
EXTENDS Integers, Sequences, FiniteSets, TLC

VARIABLES
    call,             \* the most recent method call: [op, args]
    sent,             \* keyword arguments that call handed to self.request, or NoRequest
    outcome,          \* how that call ended: returned or the exception raised
    calls_made,       \* number of method calls made on the instance
    transport_calls,  \* number of invocations of self.request
    word_obj,         \* a CustomWord held by the caller
    mapping,          \* the last field mapping projected from word_obj
    rebuilt           \* the CustomWord constructed from mapping

vars == <<call, sent, outcome, calls_made, transport_calls, word_obj, mapping, rebuilt>>
service_vars == <<call, sent, outcome, calls_made, transport_calls>>
word_vars == <<word_obj, mapping, rebuilt>>

(***************************************************************************)
(* Bounds.                                                                 *)
(***************************************************************************)
MaxCalls == 2
MaxWords == 2
MaxSounds == 2

(***************************************************************************)
(* Python values.  A str is a sequence of chunks, each chunk a run of      *)
(* unreserved characters or one reserved character.                        *)
(***************************************************************************)
PyNone == [t |-> "NoneType"]
Str(s) == [t |-> "str", v |-> s]
Bool(b) == [t |-> "bool", v |-> b]
List(l) == [t |-> "list", v |-> l]
File(name, content) == [t |-> "file", name |-> name, v |-> content]
Omitted == [t |-> "omitted"]
Dict(f) == [t |-> "dict", v |-> f]
Tuple(s) == [t |-> "tuple", v |-> s]
EmptyArgs == <<>>

\* bool(x): the truth value Python's `if x:` and `x or y` use
Truthy(x) ==
    CASE x.t = "NoneType" -> FALSE
      [] x.t = "bool" -> x.v
      [] x.t = "str" -> x.v /= <<>>
      [] x.t = "list" -> x.v /= <<>>
      [] OTHER -> TRUE

\* str(x), as '{0}'.format(x) renders its argument
py_str(x) ==
    CASE x.t = "str" -> x.v
      [] x.t = "NoneType" -> <<"None">>
      [] x.t = "bool" -> IF x.v THEN <<"True">> ELSE <<"False">>
      [] OTHER -> <<"<object>">>

\* template.format(a): prefix{0}suffix
format1(prefix, a, suffix) == prefix \o py_str(a) \o suffix

\* template.format(a, b): prefix{0}middle{1}
format2(prefix, a, middle, b) == prefix \o py_str(a) \o middle \o py_str(b)

(***************************************************************************)
(* The base service (watson_service.py): the transport and two helpers.    *)
(***************************************************************************)
NoRequest == [method |-> "<none>"]
Responses == {"json", "RemoteRequestError"}

\* requests.utils.quote of one chunk with safe='': reserved characters are escaped
quote_chunk(c) ==
    CASE c = "/" -> "%2F"
      [] c = " " -> "%20"
      [] c = "%" -> "%25"
      [] OTHER -> c

\* self._encode_path_vars(x): the percent-encoded path variable
_encode_path_vars(x) == Str([i \in 1..Len(x.v) |-> quote_chunk(x.v[i])])

RECURSIVE join(_)
join(l) == IF Len(l) = 0 THEN <<>>
           ELSE IF Len(l) = 1 THEN l[1].v
           ELSE l[1].v \o <<",">> \o join(Tail(l))

\* self._convert_list(val): a list becomes one comma-joined string
_convert_list(val) == IF val.t = "list" THEN Str(join(val.v)) ELSE val

\* the keyword arguments of one self.request call; Omitted marks a keyword not passed
Kwargs(method, url) ==
    [method |-> method, url |-> url, headers |-> Omitted, params |-> Omitted,
     data |-> Omitted, files |-> Omitted, stream |-> Omitted,
     accept_json |-> Bool(TRUE)]

\* self.request(**kw): one invocation of the transport, which returns the decoded
\* response or raises the remote error
request(kw, resp) ==
    /\ sent' = kw
    /\ transport_calls' = transport_calls + 1
    /\ outcome' = IF resp = "json" THEN "returned" ELSE resp

\* raise exc before self.request is reached
Raise(exc) ==
    /\ sent' = NoRequest
    /\ outcome' = exc
    /\ UNCHANGED transport_calls

\* a method call enters: the caller's arguments are recorded
Enter(op, args) ==
    /\ calls_made < MaxCalls
    /\ calls_made' = calls_made + 1
    /\ call' = [op |-> op, args |-> args]
    /\ UNCHANGED word_vars

(***************************************************************************)
(* Inputs.                                                                 *)
(***************************************************************************)
Ids == {PyNone, Str(<<"id1">>), Str(<<"a", "/", "b">>)}
Audio == Str(<<"RIFF">>)
BoolParams == {"continuous", "word_confidence", "timestamps", "interim_results",
               "profanity_filter", "smart_formatting", "speaker_labels"}

\* the value a caller supplies for an optional parameter
SampleValue(n) ==
    IF n = "keywords" THEN List(<<Str(<<"k1">>), Str(<<"k2">>)>>)
    ELSE IF n \in BoolParams THEN Bool(FALSE)
    ELSE Str(<<"v">>)

ProvidedSets(names) == {{}} \cup {{n} : n \in names} \cup {names}
OptArgs(names) ==
    {[n \in names |-> IF n \in P THEN SampleValue(n) ELSE PyNone] :
        P \in ProvidedSets(names)}

\* recognize_session is called in one of its two shapes: the query options with
\* raw audio, or the multipart parts
MultipartArgs ==
    [metadata : {PyNone, Str(<<"{}">>), Str(<<>>)},
     upload : {PyNone, File(Str(<<"a.wav">>), <<"RIFF">>), Str(<<"RIFF">>), Str(<<>>)},
     upload_content_type : {PyNone, Str(<<"audio/wav">>), Str(<<>>)},
     upload_filename : {PyNone, Str(<<"f.wav">>), Str(<<>>)}]
NoMultipart ==
    [metadata |-> PyNone, upload |-> PyNone, upload_content_type |-> PyNone,
     upload_filename |-> PyNone]
\* the query options of recognize_session
SessionRecognizeOptions ==
    {"sequence_id", "inactivity_timeout", "keywords", "keywords_threshold",
     "max_alternatives", "word_alternatives_threshold", "word_confidence",
     "timestamps", "profanity_filter", "smart_formatting", "speaker_labels"}

RecognizeSessionArgs ==
    LET none == [n \in SessionRecognizeOptions |-> PyNone]
        plain(i, o) == [session_id |-> i, transfer_encoding |-> PyNone, audio |-> Audio,
                        content_type |-> Str(<<"audio/basic">>)] @@ o @@ NoMultipart
        multi(i, m) == [session_id |-> i, transfer_encoding |-> Str(<<"chunked">>),
                        audio |-> PyNone,
                        content_type |-> Str(<<"multipart/form-data">>)] @@ none @@ m
    IN {plain(i, o) : i \in Ids, o \in OptArgs(SessionRecognizeOptions)}
       \cup {multi(i, m) : i \in Ids, m \in MultipartArgs}

(***************************************************************************)
(* sessionless, models                                                     *)
(***************************************************************************)
RecognizeOptions ==
    {"continuous", "model", "customization_id", "inactivity_timeout", "keywords",
     "keywords_threshold", "max_alternatives", "word_alternatives_threshold",
     "word_confidence", "timestamps", "interim_results", "profanity_filter",
     "smart_formatting", "speaker_labels", "customization_weight"}

recognize(audio, content_type, opts, resp) ==
    /\ Enter("recognize", [audio |-> audio, content_type |-> content_type] @@ opts)
    /\ LET headers == Dict("content-type" :> content_type)
           params == Dict([n \in RecognizeOptions |-> opts[n]])
       IN request([Kwargs("POST", <<"/v1/recognize">>) EXCEPT
                      !.headers = headers, !.data = audio, !.params = params,
                      !.stream = Bool(TRUE)], resp)

models(resp) ==
    /\ Enter("models", EmptyArgs)
    /\ request(Kwargs("GET", <<"/v1/models">>), resp)

get_model(model_id, resp) ==
    /\ Enter("get_model", [model_id |-> model_id])
    /\ request(Kwargs("GET", format1(<<"/v1/models/">>, model_id, <<>>)), resp)

(***************************************************************************)
(* sessions                                                                *)
(***************************************************************************)
SessionOptions ==
    {"model", "customization_id", "acoustic_customization_id", "customization_weight"}

create_session(opts, resp) ==
    /\ Enter("create_session", opts)
    /\ LET params == Dict([n \in SessionOptions |-> opts[n]])
       IN request([Kwargs("POST", <<"/v1/sessions">>) EXCEPT !.params = params], resp)

\* delete_session without its session_id check, formatting the path as get_model does
delete_session_unchecked(session_id, resp) ==
    /\ Enter("delete_session", [session_id |-> session_id])
    /\ request(Kwargs("DELETE", format1(<<"/v1/sessions/">>, session_id, <<>>)), resp)

delete_session(session_id, resp) ==
    /\ Enter("delete_session", [session_id |-> session_id])
    /\ IF session_id = PyNone
       THEN Raise("ValueError")
       ELSE request(Kwargs("DELETE",
                format1(<<"/v1/sessions/">>, _encode_path_vars(session_id), <<>>)), resp)

get_session(session_id, resp) ==
    /\ Enter("get_session", [session_id |-> session_id])
    /\ IF session_id = PyNone
       THEN Raise("ValueError")
       ELSE request(Kwargs("GET",
                format1(<<"/v1/sessions/">>, _encode_path_vars(session_id),
                        <<"/recognize">>)), resp)

recognize_session(a, resp) ==
    /\ Enter("recognize_session", a)
    /\ IF a.session_id = PyNone
       THEN Raise("ValueError")
       ELSE LET headers == Dict(("Transfer-Encoding" :> a.transfer_encoding)
                                @@ ("content-type" :> a.content_type))
                params == Dict([n \in SessionRecognizeOptions |->
                                   IF n = "keywords" THEN _convert_list(a[n]) ELSE a[n]])
                data == a.audio
                metadata_tuple ==
                    IF Truthy(a.metadata)
                    THEN Tuple(<<PyNone, a.metadata, Str(<<"text/plain">>)>>)
                    ELSE PyNone
                upload_filename ==
                    IF ~Truthy(a.upload_filename) /\ a.upload.t = "file"
                    THEN a.upload.name
                    ELSE a.upload_filename
                mime_type ==
                    IF Truthy(a.upload_content_type)
                    THEN a.upload_content_type
                    ELSE Str(<<"application/octet-stream">>)
                upload_tuple ==
                    IF Truthy(a.upload)
                    THEN Tuple(<<upload_filename, a.upload, mime_type>>)
                    ELSE PyNone
                url == format1(<<"/v1/sessions/">>, _encode_path_vars(a.session_id),
                               <<"/recognize">>)
            IN request([Kwargs("POST", url) EXCEPT
                           !.headers = headers, !.params = params, !.data = data,
                           !.files = Dict([metadata |-> metadata_tuple,
                                           upload |-> upload_tuple])], resp)

(***************************************************************************)
(* customLanguageModels                                                    *)
(***************************************************************************)
\* json.dumps(x): the JSON document that x serialises to
RECURSIVE json_dumps(_)
json_dumps(x) ==
    CASE x.t = "NoneType" -> [j |-> "null"]
      [] x.t = "bool" -> [j |-> IF x.v THEN "true" ELSE "false"]
      [] x.t = "str" -> [j |-> "string", v |-> x.v]
      [] x.t = "list" -> [j |-> "array", v |-> [i \in 1..Len(x.v) |-> json_dumps(x.v[i])]]
      [] x.t = "dict" -> [j |-> "object", v |-> [k \in DOMAIN x.v |-> json_dumps(x.v[k])]]

JsonHeaders == Dict("content-type" :> Str(<<"application/json">>))

create_custom_model(name, description, base_model, resp) ==
    /\ Enter("create_custom_model",
             [name |-> name, description |-> description, base_model |-> base_model])
    /\ LET json_body == json_dumps(Dict([name |-> name, description |-> description,
                                         base_model_name |-> base_model]))
       IN request([Kwargs("POST", <<"/v1/customizations">>) EXCEPT
                      !.headers = JsonHeaders, !.data = json_body], resp)

TrainOptions == {"customization_weight", "word_type"}

train_custom_model(customization_id, opts, resp) ==
    /\ Enter("train_custom_model", [customization_id |-> customization_id] @@ opts)
    /\ LET params == Dict([n \in TrainOptions |-> opts[n]])
       IN request([Kwargs("POST", format1(<<"/v1/customizations/">>, customization_id,
                                          <<"/train">>))
                      EXCEPT !.params = params], resp)

list_custom_models(resp) ==
    /\ Enter("list_custom_models", EmptyArgs)
    /\ request(Kwargs("GET", <<"/v1/customizations">>), resp)

get_custom_model(modelid, resp) ==
    /\ Enter("get_custom_model", [modelid |-> modelid])
    /\ request(Kwargs("GET", format1(<<"/v1/customizations/">>, modelid, <<>>)), resp)

delete_custom_model(modelid, resp) ==
    /\ Enter("delete_custom_model", [modelid |-> modelid])
    /\ request(Kwargs("DELETE", format1(<<"/v1/customizations/">>, modelid, <<>>)), resp)

(***************************************************************************)
(* customCorpora                                                           *)
(***************************************************************************)
list_corpora(customization_id, resp) ==
    /\ Enter("list_corpora", [customization_id |-> customization_id])
    /\ request(Kwargs("GET", format1(<<"/v1/customizations/">>, customization_id,
                                     <<"/corpora">>)), resp)

\* add_corpus testing `if not allow_overwrite` and forwarding the flag only when set
add_corpus_truthiness(customization_id, corpus_name, file_data, allow_overwrite, resp) ==
    /\ Enter("add_corpus", [customization_id |-> customization_id,
                            corpus_name |-> corpus_name, file_data |-> file_data,
                            allow_overwrite |-> allow_overwrite])
    /\ LET params == IF Truthy(allow_overwrite)
                     THEN Dict([allow_overwrite |-> allow_overwrite])
                     ELSE Dict(<<>>)
           headers == Dict("Content-Type" :> Str(<<"application/octet-stream">>))
       IN request([Kwargs("POST", format2(<<"/v1/customizations/">>, customization_id,
                                          <<"/corpora/">>, corpus_name))
                      EXCEPT !.headers = headers, !.data = file_data,
                             !.params = params], resp)

add_corpus(customization_id, corpus_name, file_data, allow_overwrite, resp) ==
    /\ Enter("add_corpus", [customization_id |-> customization_id,
                            corpus_name |-> corpus_name, file_data |-> file_data,
                            allow_overwrite |-> allow_overwrite])
    /\ LET allow == IF allow_overwrite = PyNone THEN Bool(FALSE) ELSE allow_overwrite
           headers == Dict("Content-Type" :> Str(<<"application/octet-stream">>))
       IN request([Kwargs("POST", format2(<<"/v1/customizations/">>, customization_id,
                                          <<"/corpora/">>, corpus_name))
                      EXCEPT !.headers = headers, !.data = file_data,
                             !.params = Dict([allow_overwrite |-> allow])], resp)

get_corpus(customization_id, corpus_name, resp) ==
    /\ Enter("get_corpus", [customization_id |-> customization_id,
                            corpus_name |-> corpus_name])
    /\ request(Kwargs("GET", format2(<<"/v1/customizations/">>, customization_id,
                                     <<"/corpora/">>, corpus_name)), resp)

delete_corpus(customization_id, corpus_name, resp) ==
    /\ Enter("delete_corpus", [customization_id |-> customization_id,
                               corpus_name |-> corpus_name])
    /\ request(Kwargs("DELETE", format2(<<"/v1/customizations/">>, customization_id,
                                        <<"/corpora/">>, corpus_name)), resp)

(***************************************************************************)
(* customWords                                                             *)
(***************************************************************************)
\* CustomWord.__init__
CustomWord(word, sounds_like, display_as) ==
    [t |-> "CustomWord", _word |-> word, _sounds_like |-> sounds_like,
     _display_as |-> display_as]

\* the read-only properties
CustomWord_word(self) == self._word
CustomWord_sounds_like(self) == self._sounds_like
CustomWord_display_as(self) == self._display_as

\* the field mapping with the two optional fields exchanged
CustomWord_dict_swapped(self) ==
    Dict([word |-> CustomWord_word(self),
          sounds_like |-> CustomWord_display_as(self),
          display_as |-> CustomWord_sounds_like(self)])

\* CustomWord.__dict__(): the field mapping
CustomWord_dict(self) ==
    Dict([word |-> CustomWord_word(self),
          sounds_like |-> CustomWord_sounds_like(self),
          display_as |-> CustomWord_display_as(self)])

\* CustomWord(**m): construction from a field mapping
CustomWord_from(m) == CustomWord(m.v.word, m.v.sounds_like, m.v.display_as)

IsCustomWord(x) == x.t = "CustomWord"

\* add_custom_words building the words list back to front
add_custom_words_reversed(customization_id, custom_words, resp) ==
    /\ Enter("add_custom_words", [customization_id |-> customization_id,
                                  custom_words |-> custom_words])
    /\ LET n == Len(custom_words)
           payload == Dict([words |-> List([i \in 1..n |->
                                               CustomWord_dict(custom_words[n + 1 - i])])])
       IN request([Kwargs("POST", format1(<<"/v1/customizations/">>, customization_id,
                                          <<"/words">>))
                      EXCEPT !.data = json_dumps(payload), !.headers = JsonHeaders], resp)

add_custom_words(customization_id, custom_words, resp) ==
    /\ Enter("add_custom_words", [customization_id |-> customization_id,
                                  custom_words |-> custom_words])
    /\ LET payload == Dict([words |-> List([i \in 1..Len(custom_words) |->
                                               CustomWord_dict(custom_words[i])])])
       IN request([Kwargs("POST", format1(<<"/v1/customizations/">>, customization_id,
                                          <<"/words">>))
                      EXCEPT !.data = json_dumps(payload), !.headers = JsonHeaders], resp)

\* add_custom_word sending the whole field mapping, word included, as the body
add_custom_word_full_mapping(customization_id, custom_word, resp) ==
    /\ Enter("add_custom_word", [customization_id |-> customization_id,
                                 custom_word |-> custom_word])
    /\ IF ~IsCustomWord(custom_word)
       THEN Raise("AttributeError")
       ELSE request([Kwargs("PUT", format2(<<"/v1/customizations/">>, customization_id,
                                           <<"/words/">>, CustomWord_word(custom_word)))
                        EXCEPT !.data = json_dumps(CustomWord_dict(custom_word)),
                               !.headers = JsonHeaders], resp)

add_custom_word(customization_id, custom_word, resp) ==
    /\ Enter("add_custom_word", [customization_id |-> customization_id,
                                 custom_word |-> custom_word])
    /\ IF ~IsCustomWord(custom_word)
       THEN Raise("AttributeError")
       ELSE LET custom_word_fragment ==
                    Dict([sounds_like |-> CustomWord_sounds_like(custom_word),
                          display_as |-> CustomWord_display_as(custom_word)])
            IN request([Kwargs("PUT", format2(<<"/v1/customizations/">>, customization_id,
                                              <<"/words/">>, CustomWord_word(custom_word)))
                           EXCEPT !.data = json_dumps(custom_word_fragment),
                                  !.headers = JsonHeaders], resp)

WordTypes == {Str(<<"all">>), Str(<<"user">>), Str(<<"corpora">>)}
Sorts == {Str(<<"alphabetical">>), Str(<<"count">>)}

list_custom_words(customization_id, word_type, sort, resp) ==
    /\ Enter("list_custom_words", [customization_id |-> customization_id,
                                   word_type |-> word_type, sort |-> sort])
    /\ LET qs0 == <<>>
           qs1 == IF Truthy(word_type) THEN ("word_type" :> word_type) @@ qs0 ELSE qs0
           qs2 == IF Truthy(sort) THEN ("sort" :> sort) @@ qs1 ELSE qs1
       IN IF Truthy(word_type) /\ word_type \notin WordTypes
          THEN Raise("KeyError")
          ELSE IF Truthy(sort) /\ sort \notin Sorts
          THEN Raise("KeyError")
          ELSE request([Kwargs("GET", format1(<<"/v1/customizations/">>, customization_id,
                                              <<"/words">>))
                           EXCEPT !.params = Dict(qs2)], resp)

get_custom_word(customization_id, custom_word, resp) ==
    /\ Enter("get_custom_word", [customization_id |-> customization_id,
                                 custom_word |-> custom_word])
    /\ IF custom_word.t /= "str" /\ ~IsCustomWord(custom_word)
       THEN Raise("AttributeError")
       ELSE LET word == IF custom_word.t = "str" THEN custom_word
                        ELSE CustomWord_word(custom_word)
            IN request(Kwargs("GET", format2(<<"/v1/customizations/">>, customization_id,
                                             <<"/words/">>, word)), resp)

delete_custom_word(customization_id, custom_word, resp) ==
    /\ Enter("delete_custom_word", [customization_id |-> customization_id,
                                    custom_word |-> custom_word])
    /\ IF custom_word.t /= "str" /\ ~IsCustomWord(custom_word)
       THEN Raise("AttributeError")
       ELSE LET word == IF custom_word.t = "str" THEN custom_word
                        ELSE CustomWord_word(custom_word)
            IN request(Kwargs("DELETE", format2(<<"/v1/customizations/">>,
                                                customization_id, <<"/words/">>, word)),
                       resp)

\* CustomWord objects and lists of them that callers pass
WordObjs ==
    {CustomWord(Str(<<"IEEE">>), List(<<Str(<<"i triple e">>)>>), Str(<<"IEEE">>)),
     CustomWord(Str(<<"a", "/", "b">>), PyNone, PyNone),
     CustomWord(PyNone, List(<<>>), Str(<<>>))}
WordLists == UNION {[1..n -> WordObjs] : n \in 0..MaxWords}
WordArgs == WordObjs \cup {Str(<<"IEEE">>), PyNone}
WordTypeArgs == WordTypes \cup {PyNone, Str(<<>>), Str(<<"invalid">>)}
SortArgs == Sorts \cup {PyNone, Str(<<>>), Str(<<"invalid">>)}

Init ==
    /\ call = [op |-> "<none>", args |-> EmptyArgs]
    /\ sent = NoRequest
    /\ outcome = "<none>"
    /\ calls_made = 0
    /\ transport_calls = 0
    /\ word_obj = PyNone
    /\ mapping = PyNone
    /\ rebuilt = PyNone

Next ==
    \/ \E o \in OptArgs(RecognizeOptions), r \in Responses :
           recognize(Audio, Str(<<"audio/wav">>), o, r)
    \/ \E r \in Responses : models(r)
    \/ \E i \in Ids, r \in Responses : get_model(i, r)
    \/ \E o \in OptArgs(SessionOptions), r \in Responses : create_session(o, r)
    \/ \E i \in Ids, r \in Responses : delete_session(i, r)
    \/ \E i \in Ids, r \in Responses : get_session(i, r)
    \/ \E a \in RecognizeSessionArgs, r \in Responses : recognize_session(a, r)
    \/ \E n \in {PyNone, Str(<<"m1">>)}, d \in {Str(<<>>), PyNone},
          b \in {Str(<<"en-US_BroadbandModel">>), PyNone}, r \in Responses :
           create_custom_model(n, d, b, r)
    \/ \E i \in Ids, o \in OptArgs(TrainOptions), r \in Responses :
           train_custom_model(i, o, r)
    \/ \E r \in Responses : list_custom_models(r)
    \/ \E i \in Ids, r \in Responses : get_custom_model(i, r)
    \/ \E i \in Ids, r \in Responses : delete_custom_model(i, r)
    \/ \E i \in Ids, r \in Responses : list_corpora(i, r)
    \/ \E i \in Ids, c \in Ids, w \in {PyNone, Bool(TRUE), Bool(FALSE)}, r \in Responses :
           add_corpus(i, c, Str(<<"corpus text">>), w, r)
    \/ \E i \in Ids, c \in Ids, r \in Responses : get_corpus(i, c, r)
    \/ \E i \in Ids, c \in Ids, r \in Responses : delete_corpus(i, c, r)
    \/ \E i \in Ids, l \in WordLists, r \in Responses : add_custom_words(i, l, r)
    \/ \E i \in Ids, w \in WordObjs \cup {PyNone}, r \in Responses :
           add_custom_word(i, w, r)
    \/ \E i \in Ids, w \in WordTypeArgs, o \in SortArgs, r \in Responses :
           list_custom_words(i, w, o, r)
    \/ \E i \in Ids, w \in WordArgs, r \in Responses : get_custom_word(i, w, r)
    \/ \E i \in Ids, w \in WordArgs, r \in Responses : delete_custom_word(i, w, r)

Spec == Init /\ [][Next]_vars

(***************************************************************************)
(* The CustomWord value on its own: a caller constructs a record, projects *)
(* it to its field mapping and constructs a second record from the mapping.*)
(***************************************************************************)
WordNames == {PyNone, Str(<<"IEEE">>), Str(<<"a", "/", "b">>)}
SoundsLikes ==
    {PyNone} \cup {List(l) : l \in UNION {[1..n -> {Str(<<"i triple e">>), Str(<<"eye">>)}] :
                                            n \in 0..MaxSounds}}
DisplayNames == {PyNone, Str(<<>>), Str(<<"IEEE">>)}

Construct(word, sounds_like, display_as) ==
    /\ word_obj' = CustomWord(word, sounds_like, display_as)
    /\ mapping' = PyNone
    /\ rebuilt' = PyNone
    /\ UNCHANGED service_vars

Project ==
    /\ word_obj /= PyNone
    /\ mapping' = CustomWord_dict(word_obj)
    /\ UNCHANGED <<word_obj, rebuilt>>
    /\ UNCHANGED service_vars

Reconstruct ==
    /\ mapping /= PyNone
    /\ rebuilt' = CustomWord_from(mapping)
    /\ UNCHANGED <<word_obj, mapping>>
    /\ UNCHANGED service_vars

NextWord ==
    \/ \E w \in WordNames, s \in SoundsLikes, d \in DisplayNames : Construct(w, s, d)
    \/ Project
    \/ Reconstruct

SpecWord == Init /\ [][NextWord]_vars

(***************************************************************************)
(* Properties.                                                             *)
(***************************************************************************)
Forwarded == sent /= NoRequest
SessionOps == {"delete_session", "get_session", "recognize_session"}

\* C1: a call of delete_session, get_session or recognize_session with
\* session_id None raises ValueError and adds no invocation of self.request,
\* whatever its other arguments and whatever calls came before.
C1_SessionIdRequired ==
    [][(/\ calls_made' = calls_made + 1
        /\ call'.op \in SessionOps
        /\ call'.args.session_id = PyNone)
       => (/\ transport_calls' = transport_calls
           /\ outcome' = "ValueError"
           /\ sent' = NoRequest)]_vars

\* a recognize_session call without session_id, made after a call that reached
\* the transport, has raised
C1_Witness ==
    /\ call.op = "recognize_session"
    /\ call.args.session_id = PyNone
    /\ call.args.upload /= PyNone
    /\ calls_made = 2
    /\ transport_calls = 1
    /\ outcome = "ValueError"

\* C2 (as stated): every supplied word_type outside {all, user, corpora} and
\* every supplied sort outside {alphabetical, count} makes list_custom_words
\* fail with KeyError without a request; supplied values inside the sets are
\* forwarded as the word_type and sort query parameters.
C2_EnumerationsEnforced ==
    call.op = "list_custom_words" =>
        LET wt == call.args.word_type
            so == call.args.sort
            wtBad == wt /= PyNone /\ wt \notin WordTypes
            soBad == so /= PyNone /\ so \notin Sorts
        IN /\ (wtBad \/ soBad) => (outcome = "KeyError" /\ ~Forwarded)
           /\ ~(wtBad \/ soBad) =>
                  /\ Forwarded
                  /\ wt \in WordTypes =>
                         ("word_type" \in DOMAIN sent.params.v
                             /\ sent.params.v["word_type"] = wt)
                  /\ so \in Sorts =>
                         ("sort" \in DOMAIN sent.params.v /\ sent.params.v["sort"] = so)

\* C3: add_custom_word with a CustomWord forwards exactly one PUT to
\* /v1/customizations/{customization_id}/words/{word} whose JSON body has
\* exactly the keys sounds_like and display_as with the record's values; the
\* word is never a body field.
C3_SingleWordFragment ==
    [][(/\ calls_made' = calls_made + 1
        /\ call'.op = "add_custom_word"
        /\ IsCustomWord(call'.args.custom_word))
       => LET w == call'.args.custom_word
          IN /\ transport_calls' = transport_calls + 1
             /\ sent'.method = "PUT"
             /\ sent'.url = <<"/v1/customizations/">> \o py_str(call'.args.customization_id)
                               \o <<"/words/">> \o py_str(w._word)
             /\ sent'.data.j = "object"
             /\ DOMAIN sent'.data.v = {"sounds_like", "display_as"}
             /\ sent'.data.v.sounds_like = json_dumps(w._sounds_like)
             /\ sent'.data.v.display_as = json_dumps(w._display_as)
             /\ "word" \notin DOMAIN sent'.data.v]_vars

\* the IEEE record was added: the body holds its two values and no word
C3_Witness ==
    /\ call.op = "add_custom_word"
    /\ IsCustomWord(call.args.custom_word)
    /\ call.args.custom_word._word = Str(<<"IEEE">>)
    /\ Forwarded
    /\ sent.data.v.sounds_like = [j |-> "array", v |-> <<[j |-> "string", v |-> <<"i triple e">>]>>]
    /\ sent.data.v.display_as = [j |-> "string", v |-> <<"IEEE">>]

\* the {word, sounds_like, display_as} projection of a record, as JSON
C4_Projection(w) ==
    [j |-> "object",
     v |-> [word |-> json_dumps(w._word), sounds_like |-> json_dumps(w._sounds_like),
            display_as |-> json_dumps(w._display_as)]]

\* C4: add_custom_words forwards a POST to /v1/customizations/{id}/words
\* whose body is {"words": L}, L as long as the input list and L[i] the
\* projection of records[i]: order kept, nothing dropped, duplicated or merged.
C4_BatchPreservesOrder ==
    call.op = "add_custom_words" =>
        /\ Forwarded
        /\ sent.method = "POST"
        /\ sent.url = <<"/v1/customizations/">> \o py_str(call.args.customization_id)
                         \o <<"/words">>
        /\ sent.data.j = "object"
        /\ DOMAIN sent.data.v = {"words"}
        /\ sent.data.v.words.j = "array"
        /\ Len(sent.data.v.words.v) = Len(call.args.custom_words)
        /\ \A i \in 1..Len(call.args.custom_words) :
               sent.data.v.words.v[i] = C4_Projection(call.args.custom_words[i])

\* two different records were sent in one batch
C4_Witness ==
    /\ call.op = "add_custom_words"
    /\ Len(call.args.custom_words) = 2
    /\ call.args.custom_words[1] /= call.args.custom_words[2]
    /\ Forwarded
    /\ Len(sent.data.v.words.v) = 2

\* C5: add_corpus always forwards allow_overwrite: false when the caller gave
\* None, otherwise exactly the caller's value (an explicit false included), in
\* a POST with Content-Type application/octet-stream and the file data as body.
C5_AllowOverwriteForwarded ==
    call.op = "add_corpus" =>
        /\ Forwarded
        /\ sent.method = "POST"
        /\ DOMAIN sent.params.v = {"allow_overwrite"}
        /\ sent.params.v.allow_overwrite =
               (IF call.args.allow_overwrite = PyNone THEN Bool(FALSE)
                ELSE call.args.allow_overwrite)
        /\ sent.headers = Dict("Content-Type" :> Str(<<"application/octet-stream">>))
        /\ sent.data = call.args.file_data

\* add_corpus was called with an explicit false
C5_Witness ==
    /\ call.op = "add_corpus"
    /\ call.args.allow_overwrite = Bool(FALSE)
    /\ Forwarded
    /\ sent.params.v.allow_overwrite = Bool(FALSE)

QueryOps == {"recognize", "create_session", "recognize_session", "train_custom_model",
             "list_custom_words"}

\* C6 (as stated): the query parameters an operation with optional parameters
\* hands to self.request hold only names the caller provided, none mapped to None.
C6_QueryParamsStripped ==
    (call.op \in QueryOps /\ Forwarded) =>
        \A k \in DOMAIN sent.params.v :
            /\ sent.params.v[k] /= PyNone
            /\ k \in DOMAIN call.args
            /\ call.args[k] /= PyNone

\* the fields of one CustomWord that are None are not keys of its JSON object
C7_WordFieldsOmitted(w, obj) ==
    /\ w._sounds_like = PyNone => "sounds_like" \notin DOMAIN obj.v
    /\ w._display_as = PyNone => "display_as" \notin DOMAIN obj.v

\* C7 (as stated): in the JSON body of create_custom_model, add_custom_word and
\* add_custom_words a field whose value is None does not appear at all.
C7_AbsentFieldsOmitted ==
    /\ (call.op = "create_custom_model" /\ Forwarded) =>
           /\ call.args.name = PyNone => "name" \notin DOMAIN sent.data.v
           /\ call.args.description = PyNone => "description" \notin DOMAIN sent.data.v
           /\ call.args.base_model = PyNone => "base_model_name" \notin DOMAIN sent.data.v
    /\ (call.op = "add_custom_word" /\ Forwarded) =>
           C7_WordFieldsOmitted(call.args.custom_word, sent.data)
    /\ (call.op = "add_custom_words" /\ Forwarded) =>
           \A i \in 1..Len(call.args.custom_words) :
               /\ call.args.custom_words[i]._word = PyNone =>
                      "word" \notin DOMAIN sent.data.v.words.v[i].v
               /\ C7_WordFieldsOmitted(call.args.custom_words[i], sent.data.v.words.v[i])

\* a path variable as the URL must carry it: percent-encoded
C8_Encoded(x) == IF x.t = "str" THEN py_str(_encode_path_vars(x)) ELSE py_str(x)

\* the word a get/delete/add custom word call names
C8_WordOf(x) == IF IsCustomWord(x) THEN x._word ELSE x

\* the URL of the call c with every path variable encoded
C8_EncodedUrl(c) ==
    LET a == c.args
        cust(suffix) == <<"/v1/customizations/">> \o C8_Encoded(a.customization_id) \o suffix
    IN CASE c.op = "get_model" -> <<"/v1/models/">> \o C8_Encoded(a.model_id)
         [] c.op = "delete_session" -> <<"/v1/sessions/">> \o C8_Encoded(a.session_id)
         [] c.op \in {"get_session", "recognize_session"} ->
                <<"/v1/sessions/">> \o C8_Encoded(a.session_id) \o <<"/recognize">>
         [] c.op = "train_custom_model" -> cust(<<"/train">>)
         [] c.op \in {"get_custom_model", "delete_custom_model"} ->
                <<"/v1/customizations/">> \o C8_Encoded(a.modelid)
         [] c.op = "list_corpora" -> cust(<<"/corpora">>)
         [] c.op \in {"add_corpus", "get_corpus", "delete_corpus"} ->
                cust(<<"/corpora/">>) \o C8_Encoded(a.corpus_name)
         [] c.op \in {"add_custom_words", "list_custom_words"} -> cust(<<"/words">>)
         [] c.op \in {"add_custom_word", "get_custom_word", "delete_custom_word"} ->
                cust(<<"/words/">>) \o C8_Encoded(C8_WordOf(a.custom_word))

PathOps ==
    {"get_model", "delete_session", "get_session", "recognize_session",
     "train_custom_model", "get_custom_model", "delete_custom_model", "list_corpora",
     "add_corpus", "get_corpus", "delete_corpus", "add_custom_words", "list_custom_words",
     "add_custom_word", "get_custom_word", "delete_custom_word"}

\* C8 (as stated): the path of every forwarded request holds each path
\* variable in its percent-encoded form, never the raw value.
C8_PathVariablesEncoded ==
    (call.op \in PathOps /\ Forwarded) => sent.url = C8_EncodedUrl(call)

\* the identifiers, other than the session id, that the call c requires
C9_Identifiers(c) ==
    LET a == c.args
    IN CASE c.op = "get_model" -> {a.model_id}
         [] c.op \in {"get_custom_model", "delete_custom_model"} -> {a.modelid}
         [] c.op \in {"train_custom_model", "list_corpora", "add_custom_words",
                      "list_custom_words"} -> {a.customization_id}
         [] c.op \in {"add_corpus", "get_corpus", "delete_corpus"} ->
                {a.customization_id, a.corpus_name}
         [] c.op \in {"add_custom_word", "get_custom_word", "delete_custom_word"} ->
                {a.customization_id, C8_WordOf(a.custom_word)}
         [] OTHER -> {}

\* C9 (as stated): a call whose required identifier (customization id, corpus
\* name, word, model id) is None fails before any request is produced.
C9_IdentifiersRequired ==
    PyNone \in C9_Identifiers(call) =>
        /\ ~Forwarded
        /\ outcome \notin {"returned", "RemoteRequestError"}

\* C10: projecting a CustomWord to its field mapping and constructing a
\* CustomWord from the mapping gives back the same word, sounds_like and
\* display_as, None included, and the projection leaves the record as it was.
C10_RoundTrip ==
    /\ [](/\ mapping /= PyNone =>
                mapping.v = [word |-> word_obj._word,
                             sounds_like |-> word_obj._sounds_like,
                             display_as |-> word_obj._display_as]
          /\ rebuilt /= PyNone =>
                /\ CustomWord_word(rebuilt) = word_obj._word
                /\ CustomWord_sounds_like(rebuilt) = word_obj._sounds_like
                /\ CustomWord_display_as(rebuilt) = word_obj._display_as)
    /\ [][(mapping' /= mapping /\ mapping' /= PyNone) => word_obj' = word_obj]_vars

\* a record with a word, two phonetic hints and no display form was projected
\* and constructed again
C10_Witness ==
    /\ rebuilt /= PyNone
    /\ word_obj._word = Str(<<"IEEE">>)
    /\ word_obj._sounds_like = List(<<Str(<<"i triple e">>), Str(<<"eye">>)>>)
    /\ word_obj._display_as = PyNone
    /\ rebuilt = word_obj

\* C11 (as stated): when recognize_session is given an upload, the upload part
\* is (filename, payload, content type) with the caller's upload_filename if
\* supplied, else the payload's own name if it has one, and the caller's
\* upload_content_type if supplied, else application/octet-stream; a supplied
\* filename or content type is never replaced.  When metadata is given, the
\* metadata part is (no filename, metadata, text/plain).
C11_MultipartShaping ==
    (call.op = "recognize_session" /\ Forwarded) =>
        LET a == call.args
            filename == IF a.upload_filename /= PyNone THEN a.upload_filename
                        ELSE IF a.upload.t = "file" THEN a.upload.name
                        ELSE PyNone
            content_type == IF a.upload_content_type /= PyNone THEN a.upload_content_type
                            ELSE Str(<<"application/octet-stream">>)
        IN /\ a.upload /= PyNone =>
                  sent.files.v.upload = Tuple(<<filename, a.upload, content_type>>)
           /\ a.metadata /= PyNone =>
                  sent.files.v.metadata =
                      Tuple(<<PyNone, a.metadata, Str(<<"text/plain">>)>>)

\* the precondition violations the call c commits: a missing session id, or a
\* supplied word_type or sort outside its closed set
C12_FailsValidation(c) ==
    \/ c.op \in SessionOps /\ c.args.session_id = PyNone
    \/ /\ c.op = "list_custom_words"
       /\ \/ c.args.word_type /= PyNone /\ c.args.word_type \notin WordTypes
          \/ c.args.sort /= PyNone /\ c.args.sort \notin Sorts

\* the word argument of the call c is a str or a CustomWord, as the method expects
C12_WellTyped(c) ==
    /\ c.op = "add_custom_word" => IsCustomWord(c.args.custom_word)
    /\ c.op \in {"get_custom_word", "delete_custom_word"} =>
           (c.args.custom_word.t = "str" \/ IsCustomWord(c.args.custom_word))

\* C12 (as stated): every call that passes local validation invokes the
\* transport exactly once, also when the transport raises, and every call that
\* fails it (missing session id, invalid word_type or sort) invokes it zero
\* times, so the invocations always number the calls that passed validation.
C12_OneRequestPerValidCall ==
    [][(calls_made' = calls_made + 1 /\ C12_WellTyped(call'))
       => transport_calls' = transport_calls
                                + (IF C12_FailsValidation(call') THEN 0 ELSE 1)]_vars

====
